---- MODULE Spec2Model ----
(***************************************************************************)
(* Game-Script-Assistant: the client-side LLM orchestration layer          *)
(* (services/geminiService.ts), the project persistence / autosave loop    *)
(* (App.tsx and its later revisions) and the translation cache             *)
(* (i18n/I18nProvider.tsx), as state machines over one state.              *)
(*                                                                         *)
(*   SpecRetry     initializeAi, withRetry and the generation functions    *)
(*   SpecApp       edits, autosave timers, explicit save, load, new project*)
(*   SpecAutosave  SpecApp restricted to edits and timer events            *)
(*   SpecRoundTrip export and import from every project state at rest      *)
(*   SpecI18n      language switches and translation fetches               *)
(***************************************************************************)
EXTENDS Integers, Sequences, FiniteSets, TLC

VARIABLES
    \* ---- services/geminiService.ts ----
    envKey,        \* process.env.API_KEY ("" when the build has none)
    lastKey,       \* history: the argument of the last initializeAi call
    endpoint,      \* the endpoint the active client sends its requests to
    lastConfigure, \* history: the last configure call with an endpoint argument
    ai,            \* the module-level client: NoClient or the key it is bound to
    pc,            \* position of the one generation call that is followed
    fn,            \* the function that was called
    maxRetries,    \* withRetry's maxRetries argument
    i,             \* withRetry's loop counter
    lastError,     \* withRetry's lastError
    log,           \* history: outcome of every apiCall() invocation of this call
    attemptClient, \* history: the client the last invocation of this call went to
    waits,         \* history: the backoff delay slept after each failed attempt
    providerCalls, \* history: requests of this call that reached the provider
    retryOutcome,  \* how withRetry settled
    clientAtCall,  \* history: the client that was active when the call was made
    result,        \* how the called function's promise settled
    \* ---- App.tsx and its revisions ----
    build,         \* which revision of App runs: "v0", "v1" or "v3"
    mounted,       \* the mount effects have run
    project,       \* the in-memory project state (the useState values)
    saveStatus,    \* 'saved' | 'saving' | 'unsaved'
    storage,       \* localStorage[LOCAL_STORAGE_KEY]: a text or NoItem
    debounce,      \* the pending autosave timeout (handler) or NoTimer
    feedback,      \* remaining times of the pending `setSaveStatus('saved')` timeouts
    fileDoc,       \* the text of the file handleSaveProject downloaded last
    opsLeft,       \* model budget of user operations
    sinceEdit,     \* history: time since the last change of the project state
    burst,         \* history: edits in the current burst (gaps below the debounce window)
    burstWrites,   \* history: autosave writes attempted since the burst began
    writeFailed,   \* history: the last autosave write threw and no edit followed
    exportedFrom,  \* history: the project state fileDoc was made from
    lastLoad,      \* history: the last load attempt
    lastNew,       \* history: the last "New project" and whether the user has acted since
    \* ---- i18n/I18nProvider.tsx ----
    language,          \* the provider's `language` prop
    provided,          \* the provider has rendered and its effect has run
    translationsCache, \* the module-level cache: per language a dictionary or NoDict
    translations,      \* the provider's state: a dictionary or NoDict (null)
    fetches,           \* the requests in flight, each with its effect's isMounted flag
    shown,             \* what t(key) returned for each key at the last render
    issued,            \* history: number of fetches issued per language
    failed,            \* history: languages of which a fetch has failed
    lastFetch,         \* history: the fetch that completed last, and the state it met
    \* ---- components/CharacterList.tsx, components/CharacterGenerator.tsx ----
    roster,            \* the app's `characters` state: the ids of its entries, in order
    uuids,             \* number of crypto.randomUUID() results handed out so far
    generation,        \* the generateCharacters call in flight, or NoGeneration
    isLoading,         \* per component: its isLoading flag
    error,             \* per component: its inline error message, NoError for null
    rosterOps,         \* model budget of roster operations
    lastCompletion,    \* history: the last completed generation
    \* ---- event handlers of the components that call the service ----
    uiPending,         \* handlers whose awaited call is in flight
    uiBusy,            \* per handler: its loading / in-progress flag
    uiError,           \* per component: its inline `error` state, NoError for null
    uiAlert,           \* the message of the last window.alert, NoError for none
    uiOutcome,         \* per handler: how its last awaited call settled
    unhandled,         \* handlers whose returned promise rejected with nobody awaiting it
    \* ---- the app's script canvas (scriptPieces state) ----
    now,               \* Date.now(), in ms since the app was opened
    scriptPieces,      \* the script pieces, in order: id, type, content
    pieceOps,          \* model budget of completions delivered to the canvas
    \* ---- components/FullScriptGenerator.tsx ----
    outline,             \* the sections, in order: id and description
    isLoadingOutline,    \* an outline generation is in flight
    isTranslatingOutline, \* an outline translation is in flight
    generatingSectionId, \* id of the section being generated, NoSection for null
    generatedSectionIds, \* ids of the sections marked as generated
    fsError,             \* the component's inline error message
    sectionCalls,        \* the generateScriptSection calls in flight
    outlineEpoch,        \* history: number of times the outline was generated or cleared
    markEpoch,           \* history: per id, the outline epoch its mark's generation started in
    editedSince,         \* history: ids whose description was edited after their mark was set
    fsOps                \* model budget of user operations on the component

retryVars == <<envKey, lastKey, endpoint, lastConfigure, ai, pc, fn, maxRetries, i, lastError, log,
               attemptClient, waits,
               providerCalls, retryOutcome, clientAtCall, result>>

appVars == <<build, mounted, project, saveStatus, storage, debounce, feedback,
             fileDoc, opsLeft, sinceEdit, burst, burstWrites, writeFailed,
             exportedFrom, lastLoad, lastNew>>

i18nVars == <<language, provided, translationsCache, translations, fetches,
              shown, issued, failed, lastFetch>>

rosterVars == <<roster, uuids, generation, isLoading, error, rosterOps, lastCompletion>>

uiVars == <<uiPending, uiBusy, uiError, uiAlert, uiOutcome, unhandled>>

piecesVars == <<now, scriptPieces, pieceOps>>

fullScriptVars == <<outline, isLoadingOutline, isTranslatingOutline, generatingSectionId,
                    generatedSectionIds, fsError, sectionCalls, outlineEpoch,
                    markEpoch, editedSince, fsOps>>

vars == <<retryVars, appVars, i18nVars, rosterVars, uiVars, piecesVars, fullScriptVars>>

\* The variables of the other subsystems, as seen from each one.
exceptRetry == <<appVars, i18nVars, rosterVars, uiVars, piecesVars, fullScriptVars>>
exceptApp == <<retryVars, i18nVars, rosterVars, uiVars, piecesVars, fullScriptVars>>
exceptI18n == <<retryVars, appVars, rosterVars, uiVars, piecesVars, fullScriptVars>>
exceptRoster == <<retryVars, appVars, i18nVars, uiVars, piecesVars, fullScriptVars>>
exceptPieces == <<retryVars, appVars, i18nVars, rosterVars, uiVars, fullScriptVars>>
exceptFullScript == <<retryVars, appVars, i18nVars, rosterVars, uiVars, piecesVars>>
exceptUi == <<retryVars, appVars, i18nVars, rosterVars, piecesVars, fullScriptVars>>

(***************************************************************************)
(* services/geminiService.ts                                               *)
(***************************************************************************)

NoClient == "null"
Undefined == "undefined"

\* Keys a user can type into the settings dialog: nothing, blanks, a key.
UserKeys == {"", "  ", "userKey"}
EnvKeys == {"", "envKey"}

\* String.prototype.trim on the key strings of the model.
Trim(s) == IF s = "  " THEN "" ELSE s

\* `apiKey || process.env.API_KEY`: the left operand unless it is falsy.
OrElse(a, b) == IF a = "" \/ a = Undefined THEN b ELSE a

\* initializeAi(apiKey): the client the module holds afterwards.
ClientFor(apiKey, env) ==
    LET finalApiKey == OrElse(apiKey, env)
    IN  IF finalApiKey = "" \/ finalApiKey = Undefined \/ Trim(finalApiKey) = ""
        THEN NoClient
        ELSE finalApiKey

DefaultMaxRetries == 3
InitialDelay == 1000
JitterRange == 1000

\* Largest maxRetries a direct caller of withRetry passes in the model.
MaxRetriesArg == 4

\* Math.random() * 1000 sampled at its ends: 0 <= jitter < 1000.
JitterSamples == {0, JitterRange - 1}

\* Math.pow(2, n)
RECURSIVE Pow2(_)
Pow2(n) == IF n = 0 THEN 1 ELSE 2 * Pow2(n - 1)

\* Errors the provider's generateContent rejects with.
ProviderErrors == {"err503", "err429"}
\* What `ai!.models` throws when the module-level client is null.
TypeError == "TypeError"

\* response.text of a provider response.
ResponseTexts == {"", "  ", "prose", "json_ok", "fenced_json_ok", "json_nokey",
                  "json_nonarray", "json_null", "not_json"}

NotInitializedMsg == "AI Client not initialized. Please set an API key in the settings."
NotInitializedShortMsg == "AI Client not initialized."

GenerationFunctions ==
    {"generateCharacters", "generateConceptDescription", "generateScriptForPlotPoint",
     "translateToChinese", "brainstormFrameworkIdea", "generateScene",
     "generateScriptSection"}

\* The earlier service module (second part of types.ts): its client is a
\* constant made from process.env.API_KEY when the module loads, its withRetry
\* has no client test and no jitter.
LegacyFunctions == {"generateScriptOutline"}

\* The jitter withRetry adds to a backoff delay.
JitterOf(f) == IF f \in LegacyFunctions THEN {0} ELSE JitterSamples

Ok(v) == [kind |-> "value", v |-> v]
Err(e) == [kind |-> "error", v |-> e]
Pending == [kind |-> "pending", v |-> ""]

\* The guard each generation function runs first: `if (!ai) throw new Error(...)`.
NotInitializedError(f) ==
    IF f = "generateConceptDescription" THEN NotInitializedShortMsg ELSE NotInitializedMsg

\* The early returns that precede the try block: generateCharacters with no
\* prompts returns [], translateToChinese with blank text returns ''.
EarlyReturn(f, argEmpty) ==
    IF f = "generateCharacters" /\ argEmpty THEN Ok("[]")
    ELSE IF f = "translateToChinese" /\ argEmpty THEN Ok("")
    ELSE Pending

\* The provider's own endpoint, used by a client made without one.
DefaultEndpoint == "default"

\* What the endpoint field of the settings dialog can hold: nothing, a URL,
\* text that is no URL.
EndpointArgs == {"", "https://proxy.example/v1", "http://localhost:8080",
                 "proxy example", "http//missing-colon"}

\* The text is a syntactically valid URL.
ValidUrl(e) == e \in {"https://proxy.example/v1", "http://localhost:8080"}

NoConfigure == [key |-> Undefined, endpoint |-> "", discarded |-> FALSE,
                threw |-> FALSE, before |-> [ai |-> NoClient, endpoint |-> DefaultEndpoint]]

InitRetryVars ==
    /\ envKey \in EnvKeys
    /\ lastKey = Undefined
    /\ endpoint = DefaultEndpoint
    /\ lastConfigure = NoConfigure
    /\ ai = ClientFor(envKey, envKey)
    /\ pc = "idle"
    /\ fn = "none"
    /\ maxRetries = DefaultMaxRetries
    /\ i = 0
    /\ lastError = Undefined
    /\ log = <<>>
    /\ attemptClient = Undefined
    /\ waits = <<>>
    /\ providerCalls = 0
    /\ retryOutcome = Pending
    /\ clientAtCall = NoClient
    /\ result = Pending

\* initializeAi(apiKey), from the settings effect; it can run at any time,
\* also while a call is waiting between attempts.
InitializeAi(apiKey) ==
    /\ ai' = ClientFor(apiKey, envKey)
    /\ lastKey' = apiKey
    /\ endpoint' = DefaultEndpoint
    /\ lastConfigure' = NoConfigure
    /\ UNCHANGED <<envKey, pc, fn, maxRetries, i, lastError, log, attemptClient, waits,
                   providerCalls, retryOutcome, clientAtCall, result>>

\* configure with every endpoint applied as given, valid or not.
ConfigureUnchecked(apiKey, e) ==
    /\ ai' = ClientFor(apiKey, envKey)
    /\ endpoint' = (IF e = "" THEN DefaultEndpoint ELSE e)
    /\ lastKey' = apiKey
    /\ lastConfigure' = [key |-> apiKey, endpoint |-> e,
                         discarded |-> e # "" /\ ~ValidUrl(e), threw |-> FALSE,
                         before |-> [ai |-> ai, endpoint |-> endpoint]]
    /\ UNCHANGED <<envKey, pc, fn, maxRetries, i, lastError, log, attemptClient, waits,
                   providerCalls, retryOutcome, clientAtCall, result>>

\* configure(credential, endpoint): the client is replaced by one for the
\* credential (or the environment default) and the endpoint; an endpoint that
\* is supplied and is no valid URL makes the call a logged no-op.
Configure(apiKey, e) ==
    /\ IF e # "" /\ ~ValidUrl(e)
       THEN UNCHANGED <<ai, endpoint, lastKey>>
       ELSE /\ ai' = ClientFor(apiKey, envKey)
            /\ endpoint' = (IF e = "" THEN DefaultEndpoint ELSE e)
            /\ lastKey' = apiKey
    /\ lastConfigure' = [key |-> apiKey, endpoint |-> e,
                         discarded |-> e # "" /\ ~ValidUrl(e), threw |-> FALSE,
                         before |-> [ai |-> ai, endpoint |-> endpoint]]
    /\ UNCHANGED <<envKey, pc, fn, maxRetries, i, lastError, log, attemptClient, waits,
                   providerCalls, retryOutcome, clientAtCall, result>>

\* Entry of withRetry: the null check, then the loop is entered (or, with
\* maxRetries = 0, skipped and lastError thrown as it is).
WithRetryEntry(f, n) ==
    /\ fn' = f
    /\ maxRetries' = n
    /\ i' = 0
    /\ lastError' = Undefined
    /\ log' = <<>>
    /\ attemptClient' = Undefined
    /\ waits' = <<>>
    /\ providerCalls' = 0
    /\ result' = Pending
    /\ clientAtCall' = ai
    /\ IF ai = NoClient
       THEN /\ pc' = "retrySettled"
            /\ retryOutcome' = Err(NotInitializedMsg)
       ELSE IF n > 0
       THEN /\ pc' = "attempt"
            /\ retryOutcome' = Pending
       ELSE /\ pc' = "retrySettled"
            /\ retryOutcome' = Err(Undefined)
    /\ UNCHANGED <<envKey, lastKey, endpoint, lastConfigure, ai>>

\* A direct call withRetry(apiCall, n).
CallWithRetry(n) ==
    /\ pc = "idle"
    /\ WithRetryEntry("withRetry", n)

\* A generation function that settles before it reaches withRetry.
SettleEarly(f, r) ==
    /\ pc' = "settled"
    /\ result' = r
    /\ fn' = f
    /\ maxRetries' = DefaultMaxRetries
    /\ i' = 0
    /\ lastError' = Undefined
    /\ log' = <<>>
    /\ attemptClient' = Undefined
    /\ waits' = <<>>
    /\ providerCalls' = 0
    /\ retryOutcome' = Pending
    /\ clientAtCall' = ai
    /\ UNCHANGED <<envKey, lastKey, endpoint, lastConfigure, ai>>

\* CallGeneration with the empty-input early return tested before the client.
CallGenerationEarlyReturnFirst(f, argEmpty) ==
    /\ pc = "idle"
    /\ IF EarlyReturn(f, argEmpty) # Pending
       THEN SettleEarly(f, EarlyReturn(f, argEmpty))
       ELSE IF ai = NoClient
       THEN SettleEarly(f, Err(NotInitializedError(f)))
       ELSE WithRetryEntry(f, DefaultMaxRetries)

\* A call of a generation function: the guard, the early return, then withRetry
\* with its default maxRetries.
CallGeneration(f, argEmpty) ==
    /\ pc = "idle"
    /\ IF ai = NoClient
       THEN SettleEarly(f, Err(NotInitializedError(f)))
       ELSE IF EarlyReturn(f, argEmpty) # Pending
       THEN SettleEarly(f, EarlyReturn(f, argEmpty))
       ELSE WithRetryEntry(f, DefaultMaxRetries)

\* A call of a function of the earlier service module; the module loads only
\* when process.env.API_KEY is set.
CallLegacyGeneration(f) ==
    /\ pc = "idle"
    /\ envKey # ""
    /\ fn' = f
    /\ maxRetries' = DefaultMaxRetries
    /\ i' = 0
    /\ lastError' = Undefined
    /\ log' = <<>>
    /\ attemptClient' = Undefined
    /\ waits' = <<>>
    /\ providerCalls' = 0
    /\ result' = Pending
    /\ clientAtCall' = envKey
    /\ pc' = "attempt"
    /\ retryOutcome' = Pending
    /\ UNCHANGED <<envKey, lastKey, endpoint, lastConfigure, ai>>

\* The request closure with the client captured when the call started.
ClientOfAttemptCaptured == clientAtCall

\* The client an invocation of apiCall() goes to: the request closures of
\* geminiService.ts dereference the module-level `ai` when they run; the
\* earlier service module has one constant client.
ClientOfAttempt == IF fn \in LegacyFunctions THEN clientAtCall ELSE ai

\* AfterFailure with the loop bound off by one (i <= maxRetries - 1 tested as
\* i <= maxRetries): one attempt too many.
AfterFailureOffByOne(e) ==
    /\ lastError' = e
    /\ log' = Append(log, Err(e))
    /\ attemptClient' = ClientOfAttempt
    /\ IF i < maxRetries
       THEN /\ \E jitter \in JitterOf(fn) :
                 waits' = Append(waits, InitialDelay * Pow2(i) + jitter)
            /\ pc' = "waiting"
            /\ i' = i
            /\ retryOutcome' = retryOutcome
       ELSE /\ waits' = waits
            /\ i' = i + 1
            /\ pc' = "retrySettled"
            /\ retryOutcome' = Err(lastError')

\* AfterFailure with lastError assigned only once: the first error is kept.
AfterFailureKeepsFirst(e) ==
    /\ lastError' = (IF lastError = Undefined THEN e ELSE lastError)
    /\ log' = Append(log, Err(e))
    /\ attemptClient' = ClientOfAttempt
    /\ IF i < maxRetries - 1
       THEN /\ \E jitter \in JitterOf(fn) :
                 waits' = Append(waits, InitialDelay * Pow2(i) + jitter)
            /\ pc' = "waiting"
            /\ i' = i
            /\ retryOutcome' = retryOutcome
       ELSE /\ waits' = waits
            /\ i' = i + 1
            /\ pc' = "retrySettled"
            /\ retryOutcome' = Err(lastError')

\* AfterFailure with a constant delay (initialDelay + jitter, no doubling).
AfterFailureFixedDelay(e) ==
    /\ lastError' = e
    /\ log' = Append(log, Err(e))
    /\ attemptClient' = ClientOfAttempt
    /\ IF i < maxRetries - 1
       THEN /\ \E jitter \in JitterOf(fn) :
                 waits' = Append(waits, InitialDelay + jitter)
            /\ pc' = "waiting"
            /\ i' = i
            /\ retryOutcome' = retryOutcome
       ELSE /\ waits' = waits
            /\ i' = i + 1
            /\ pc' = "retrySettled"
            /\ retryOutcome' = Err(lastError')

\* After a failed attempt number i: record it, then either sleep or leave the loop.
AfterFailure(e) ==
    /\ lastError' = e
    /\ log' = Append(log, Err(e))
    /\ attemptClient' = ClientOfAttempt
    /\ IF i < maxRetries - 1
       THEN /\ \E jitter \in JitterOf(fn) :
                 waits' = Append(waits, InitialDelay * Pow2(i) + jitter)
            /\ pc' = "waiting"
            /\ i' = i
            /\ retryOutcome' = retryOutcome
       ELSE /\ waits' = waits
            /\ i' = i + 1
            /\ pc' = "retrySettled"
            /\ retryOutcome' = Err(lastError')

\* One loop iteration whose apiCall() resolves: `return await apiCall()`.
AttemptSucceeds(text) ==
    /\ pc = "attempt"
    /\ ClientOfAttempt # NoClient
    /\ providerCalls' = providerCalls + 1
    /\ log' = Append(log, Ok(text))
    /\ attemptClient' = ClientOfAttempt
    /\ retryOutcome' = Ok(text)
    /\ pc' = "retrySettled"
    /\ UNCHANGED <<envKey, lastKey, endpoint, lastConfigure, ai, fn, maxRetries, i, lastError, waits, clientAtCall, result>>

\* One loop iteration whose apiCall() rejects with a provider error.
AttemptFails(e) ==
    /\ pc = "attempt"
    /\ ClientOfAttempt # NoClient
    /\ providerCalls' = providerCalls + 1
    /\ AfterFailure(e)
    /\ UNCHANGED <<envKey, lastKey, endpoint, lastConfigure, ai, fn, maxRetries, clientAtCall, result>>

\* One loop iteration after the client was unset: the request closure
\* dereferences `ai!` and throws before any request is made.
AttemptWithoutClient ==
    /\ pc = "attempt"
    /\ ClientOfAttempt = NoClient
    /\ AfterFailure(TypeError)
    /\ UNCHANGED <<envKey, lastKey, endpoint, lastConfigure, ai, fn, maxRetries, providerCalls, clientAtCall, result>>

\* The backoff timer elapses: i++ and the next iteration starts.
BackoffElapsed ==
    /\ pc = "waiting"
    /\ i' = i + 1
    /\ pc' = "attempt"
    /\ UNCHANGED <<envKey, lastKey, endpoint, lastConfigure, ai, fn, maxRetries, lastError, log, attemptClient, waits,
                   providerCalls, retryOutcome, clientAtCall, result>>

\* response.text?.trim() on the response texts of the model.
TrimText(t) == IF t = "  " THEN "" ELSE t

\* generateCharacters after withRetry resolved: trim, strip a markdown fence,
\* JSON.parse, the shape check, and the catch block's rewrite of a SyntaxError.
ParseCharacters(text) ==
    LET textResponse == TrimText(text)
        jsonString == IF textResponse = "fenced_json_ok" THEN "json_ok" ELSE textResponse
    IN  IF textResponse = ""
        THEN Err("API returned an empty response.")
        ELSE IF jsonString \in {"prose", "not_json"}
        THEN Err("Failed to generate character profile. The AI returned an invalid format.")
        ELSE IF jsonString = "json_null"
        THEN Err(TypeError)
        ELSE IF jsonString \in {"json_nokey", "json_nonarray"}
        THEN Err("API returned an invalid format. Expected an object with a 'characters' array.")
        ELSE Ok("characters")

OutlineGenericMsg == "Failed to generate the script outline."
OutlineFormatMsg == "Failed to generate script outline. The AI returned an invalid format."

\* ParseOutline with the shape test left out: `return parsed.outline`.
ParseOutlineUnchecked(text) ==
    LET textResponse == TrimText(text)
    IN  IF textResponse = ""
        THEN Err(OutlineGenericMsg)
        ELSE IF textResponse \in {"prose", "not_json", "fenced_json_ok"}
        THEN Err(OutlineFormatMsg)
        ELSE IF textResponse = "json_null"
        THEN Err(OutlineGenericMsg)
        ELSE IF textResponse = "json_nokey"
        THEN Ok(Undefined)
        ELSE IF textResponse = "json_nonarray"
        THEN Ok("nonarray")
        ELSE Ok("outline")

\* generateScriptOutline after withRetry resolved: trim (no fence is stripped),
\* JSON.parse, the shape check; the catch block turns a SyntaxError into the
\* format message and every other error into the generic one.
ParseOutline(text) ==
    LET textResponse == TrimText(text)
    IN  IF textResponse = ""
        THEN Err(OutlineGenericMsg)
        ELSE IF textResponse \in {"prose", "not_json", "fenced_json_ok"}
        THEN Err(OutlineFormatMsg)
        ELSE IF textResponse \in {"json_null", "json_nokey", "json_nonarray"}
        THEN Err(OutlineGenericMsg)
        ELSE Ok("outline")

\* The message a generation function's catch block throws in place of the
\* error withRetry rejected with; generateCharacters and
\* generateConceptDescription rethrow the error itself.
CatchRewrite(f, e) ==
    CASE f = "generateScriptForPlotPoint" -> "Failed to generate the script section."
      [] f = "translateToChinese" -> "Failed to translate the text to Chinese."
      [] f = "brainstormFrameworkIdea" -> "Failed to brainstorm ideas for section."
      [] f = "generateScene" -> "Failed to generate the scene."
      [] f = "generateScriptSection" -> "Failed to generate the script section."
      [] f = "generateScriptOutline" -> OutlineGenericMsg
      [] OTHER -> e

\* What the called function's promise settles with, given how withRetry settled.
FunctionResult(f, ro) ==
    IF ro.kind = "error" THEN Err(CatchRewrite(f, ro.v))
    ELSE CASE f = "withRetry" -> ro
           [] f = "generateCharacters" -> ParseCharacters(ro.v)
           [] f = "generateScriptOutline" -> ParseOutline(ro.v)
           [] f = "generateConceptDescription" -> Ok(TrimText(ro.v))
           [] OTHER -> Ok(ro.v)

\* The continuation of the called function after `await withRetry(...)`.
FunctionSettles ==
    /\ pc = "retrySettled"
    /\ result' = FunctionResult(fn, retryOutcome)
    /\ pc' = "settled"
    /\ UNCHANGED <<envKey, lastKey, endpoint, lastConfigure, ai, fn, maxRetries, i, lastError, log, attemptClient, waits,
                   providerCalls, retryOutcome, clientAtCall>>

\* The caller has consumed the settled promise and the call's locals are gone;
\* the next call can be made.
CallReturns ==
    /\ pc = "settled"
    /\ pc' = "idle"
    /\ fn' = "none"
    /\ maxRetries' = DefaultMaxRetries
    /\ i' = 0
    /\ lastError' = Undefined
    /\ log' = <<>>
    /\ attemptClient' = Undefined
    /\ waits' = <<>>
    /\ providerCalls' = 0
    /\ retryOutcome' = Pending
    /\ clientAtCall' = NoClient
    /\ result' = Pending
    /\ UNCHANGED <<envKey, lastKey, endpoint, lastConfigure, ai>>

(***************************************************************************)
(* App.tsx ("v0"), unnamed/part_001 lines 1-323 ("v1") and lines 325-546   *)
(* ("v3"): project state, the persisted document, autosave, save and load. *)
(***************************************************************************)

Builds == {"v0", "v1", "v3"}
AutosaveBuilds == {"v1", "v3"}

\* APP_VERSION of each revision.
AppVersion(b) == IF b = "v3" THEN 3 ELSE 1

DebounceMs == 1500
FeedbackMs == 500

\* Amounts by which the model lets time pass in one step.
TimeSteps == {500}

\* Model budget: user operations (edit, save, load, new project) in one run.
MaxOps == 2
\* Model bound: longest character / script-piece list.
MaxList == 1

\* A `version` key that is missing from a document (data.version is undefined).
NoVersion == -1
\* A list-valued key that is missing from a document.
UndefinedList == <<"undefined">>

NoItem == [kind |-> "none"]
NoTimer == [remaining |-> -1]

ZhName == "zh:My Awesome Game"
EnName == "My Awesome Game"
InitialFrameworkInputs == "framework:empty"
NotApplicable == "n/a"

\* The useState initial values of each revision.  v0 and v1 keep the credential
\* outside the project (v0 has none, v1 has customApiKey); v3 has no
\* frameworkInputs.
InitialProject(b) ==
    [projectName |-> IF b = "v3" THEN EnName ELSE ZhName,
     frameworkInputs |-> IF b = "v3" THEN NotApplicable ELSE InitialFrameworkInputs,
     characters |-> <<>>,
     scriptPieces |-> <<>>,
     gameEngine |-> "unity",
     language |-> IF b = "v3" THEN "en" ELSE "zh",
     apiKey |-> ""]

\* JS truthiness of the string values of the model.
Falsy(x) == x = "" \/ x = Undefined

\* The SavedProject object literal built by the autosave callback and by
\* handleSaveProject, as JSON.stringify writes it: keys whose value is
\* undefined are left out.
ProjectData(b, st) ==
    [version |-> AppVersion(b),
     projectName |-> st.projectName,
     frameworkInputs |-> IF b = "v3" THEN Undefined ELSE st.frameworkInputs,
     characters |-> st.characters,
     scriptPieces |-> st.scriptPieces,
     gameEngine |-> st.gameEngine,
     language |-> st.language,
     apiKey |-> IF b = "v3" THEN st.apiKey ELSE Undefined]

\* JSON.stringify(projectData): a text holding the document.
JsonStringify(doc) == [kind |-> "json", doc |-> doc]
\* A text JSON.parse throws a SyntaxError on.
Garbage == [kind |-> "garbage"]

\* getInitialState(): the hard-coded document of "New project".
GetInitialState(b) ==
    [version |-> AppVersion(b),
     projectName |-> EnName,
     frameworkInputs |-> IF b = "v3" THEN Undefined ELSE InitialFrameworkInputs,
     characters |-> <<>>,
     scriptPieces |-> <<>>,
     gameEngine |-> "unity",
     language |-> "en",
     apiKey |-> IF b = "v3" THEN "" ELSE Undefined]

\* Refuses without the test for a newer version.
RefusesOnlyLegacy(b, data) ==
    CASE b = "v0" -> \/ data.version < AppVersion(b)
                     \/ Falsy(data.projectName)
                     \/ Falsy(data.frameworkInputs)
      [] b = "v1" -> FALSE
      [] OTHER    -> \/ data.version = NoVersion
                     \/ data.version = 0
                     \/ data.version < 2

\* The version test of each revision: TRUE when the document is refused.
\*   v0: data.version !== APP_VERSION || !data.projectName || !data.frameworkInputs
\*   v1: data.version > APP_VERSION
\*   v3: !data.version || data.version < 2, then data.version > APP_VERSION
Refuses(b, data) ==
    CASE b = "v0" -> \/ data.version # AppVersion(b)
                     \/ Falsy(data.projectName)
                     \/ Falsy(data.frameworkInputs)
      [] b = "v1" -> data.version # NoVersion /\ data.version > AppVersion(b)
      [] OTHER    -> \/ data.version = NoVersion
                     \/ data.version = 0
                     \/ data.version < 2
                     \/ data.version > AppVersion(b)

\* The message thrown for a refused document.
RefusalMsg(b, data) ==
    CASE b = "v0" -> "Invalid or incompatible project file."
      [] b = "v3" /\ (data.version = NoVersion \/ data.version < 2) ->
            "This project file is from a legacy version and cannot be loaded."
      [] OTHER ->
            "This project file was created with a newer version of the app and cannot be loaded."

ListOr(x, dflt) == IF x = UndefinedList THEN dflt ELSE x
StrOr(x, dflt) == IF Falsy(x) THEN dflt ELSE x

\* The setState calls of loadProjectData (v1, v3) and of handleFileSelected
\* (v0) for an accepted document.
Loaded(b, data, st) ==
    [projectName |-> data.projectName,
     frameworkInputs |-> IF b = "v3" THEN st.frameworkInputs ELSE data.frameworkInputs,
     characters |-> ListOr(data.characters, <<>>),
     scriptPieces |-> ListOr(data.scriptPieces, <<>>),
     gameEngine |-> StrOr(data.gameEngine, "unity"),
     language |-> StrOr(data.language, "en"),
     apiKey |-> IF b = "v3" THEN StrOr(data.apiKey, "") ELSE st.apiKey]

\* JSON.parse(text) followed by the load: the error thrown, or the new state.
LoadText(b, text, st) ==
    IF text.kind # "json" THEN [ok |-> FALSE, msg |-> "SyntaxError", state |-> st]
    ELSE IF Refuses(b, text.doc)
    THEN [ok |-> FALSE, msg |-> RefusalMsg(b, text.doc), state |-> st]
    ELSE [ok |-> TRUE, msg |-> "", state |-> Loaded(b, text.doc, st)]

\* Documents a user may pick in the file dialog besides the file the app
\* exported itself, and that localStorage may hold from an earlier session.
BaseDoc(b) ==
    [version |-> AppVersion(b),
     projectName |-> "Saga",
     frameworkInputs |-> IF b = "v3" THEN Undefined ELSE "framework:edited",
     characters |-> <<"c1">>,
     scriptPieces |-> <<"p1">>,
     gameEngine |-> "godot",
     language |-> "zh",
     apiKey |-> IF b = "v3" THEN "userKey" ELSE Undefined]

ForeignTexts(b) ==
    {Garbage,
     JsonStringify(BaseDoc(b)),
     JsonStringify([BaseDoc(b) EXCEPT !.version = AppVersion(b) + 1]),
     JsonStringify([BaseDoc(b) EXCEPT !.version = AppVersion(b) - 1]),
     JsonStringify([BaseDoc(b) EXCEPT !.version = NoVersion]),
     JsonStringify([BaseDoc(b) EXCEPT !.projectName = Undefined]),
     JsonStringify([BaseDoc(b) EXCEPT !.frameworkInputs = Undefined]),
     JsonStringify([BaseDoc(b) EXCEPT !.characters = UndefinedList,
                                      !.scriptPieces = UndefinedList,
                                      !.gameEngine = Undefined,
                                      !.language = Undefined,
                                      !.apiKey = Undefined])}

\* What localStorage may hold when the app starts.
StoredTexts(b) ==
    {Garbage,
     JsonStringify(BaseDoc(b)),
     JsonStringify([BaseDoc(b) EXCEPT !.version = AppVersion(b) + 1])}

NoLoad == [seq |-> 0, source |-> "none", text |-> Garbage, accepted |-> FALSE,
           ok |-> FALSE, msg |-> "", before |-> InitialProject("v0")]

NoNew == [seq |-> 0, confirmed |-> FALSE, quiet |-> FALSE]

\* A user operation other than "New project" has taken place.
UserActed == lastNew' = [lastNew EXCEPT !.quiet = FALSE]

InitAppVars(bs) ==
    /\ build \in bs
    /\ mounted = FALSE
    /\ project = InitialProject(build)
    /\ saveStatus = "saved"
    /\ storage \in (IF build = "v0" THEN {NoItem}
                    ELSE {NoItem} \cup StoredTexts(build))
    /\ debounce = NoTimer
    /\ feedback = {}
    /\ fileDoc = NoItem
    /\ opsLeft = MaxOps
    /\ sinceEdit = 0
    /\ burst = 0
    /\ burstWrites = 0
    /\ writeFailed = FALSE
    /\ exportedFrom = InitialProject(build)
    /\ lastLoad = NoLoad
    /\ lastNew = NoNew

\* A due timeout runs before anything else the event loop has to do.
TimerDue == debounce.remaining = 0 \/ 0 \in feedback

\* AutosaveEffect without the cleanup's clearTimeout taking effect: a timeout
\* that is already pending is kept (a throttle instead of a debounce).
AutosaveEffectKeepsTimer(newProject) ==
    /\ saveStatus' = "unsaved"
    /\ debounce' = IF debounce = NoTimer
                   THEN [remaining |-> DebounceMs, snapshot |-> newProject]
                   ELSE debounce
    /\ sinceEdit' = 0
    /\ IF burst >= 1 /\ sinceEdit < DebounceMs
       THEN burst' = burst + 1 /\ burstWrites' = burstWrites
       ELSE burst' = 1 /\ burstWrites' = 0
    /\ writeFailed' = FALSE

\* AutosaveEffect whose new timeout keeps the closure of the timeout it
\* replaces: the write stores the state of the first edit of a burst.
AutosaveEffectStaleClosure(newProject) ==
    /\ saveStatus' = "unsaved"
    /\ debounce' = [remaining |-> DebounceMs,
                    snapshot |-> IF debounce = NoTimer THEN newProject
                                 ELSE debounce.snapshot]
    /\ sinceEdit' = 0
    /\ IF burst >= 1 /\ sinceEdit < DebounceMs
       THEN burst' = burst + 1 /\ burstWrites' = burstWrites
       ELSE burst' = 1 /\ burstWrites' = 0
    /\ writeFailed' = FALSE

\* The autosave effect after a render in which one of its dependencies
\* changed: the cleanup clears the old timeout, the status becomes 'unsaved'
\* and a new timeout is set whose closure holds the values of that render.
AutosaveEffect(newProject) ==
    /\ saveStatus' = "unsaved"
    /\ debounce' = [remaining |-> DebounceMs, snapshot |-> newProject]
    /\ sinceEdit' = 0
    /\ IF burst >= 1 /\ sinceEdit < DebounceMs
       THEN burst' = burst + 1 /\ burstWrites' = burstWrites
       ELSE burst' = 1 /\ burstWrites' = 0
    /\ writeFailed' = FALSE

\* What a change of the project state to newProject does besides the change:
\* in v1 and v3 the autosave effect runs, v0 has no such effect.
StateChanged(newProject) ==
    /\ project' = newProject
    /\ IF build \in AutosaveBuilds
       THEN AutosaveEffect(newProject)
       ELSE UNCHANGED <<saveStatus, debounce, sinceEdit, burst, burstWrites, writeFailed>>

\* Mount whose catch block leaves the refused text in localStorage.
MountKeepsRejected ==
    /\ ~mounted
    /\ mounted' = TRUE
    /\ IF build \in AutosaveBuilds /\ storage # NoItem
       THEN LET r == LoadText(build, storage, project)
            IN  /\ lastLoad' = [seq |-> lastLoad.seq + 1, source |-> "storage",
                                text |-> storage, accepted |-> r.ok, ok |-> r.ok,
                                msg |-> r.msg, before |-> project]
                /\ IF r.ok
                   THEN /\ StateChanged(r.state)
                        /\ UNCHANGED storage
                   ELSE /\ storage' = storage
                        /\ UNCHANGED <<project, saveStatus, debounce, sinceEdit, burst,
                                       burstWrites, writeFailed>>
       ELSE UNCHANGED <<project, saveStatus, storage, debounce, sinceEdit, burst,
                        burstWrites, writeFailed, lastLoad>>
    /\ UNCHANGED <<build, feedback, fileDoc, opsLeft, exportedFrom, lastNew>>

\* Mount.  The auto-load effect of v1 and v3 reads localStorage; a text that
\* does not parse or is refused is removed.  The autosave effect skips its
\* first run (isInitialLoad) and runs again after the render that shows the
\* loaded state.
Mount ==
    /\ ~mounted
    /\ mounted' = TRUE
    /\ IF build \in AutosaveBuilds /\ storage # NoItem
       THEN LET r == LoadText(build, storage, project)
            IN  /\ lastLoad' = [seq |-> lastLoad.seq + 1, source |-> "storage",
                                text |-> storage, accepted |-> r.ok, ok |-> r.ok,
                                msg |-> r.msg, before |-> project]
                /\ IF r.ok
                   THEN /\ StateChanged(r.state)
                        /\ UNCHANGED storage
                   ELSE /\ storage' = NoItem
                        /\ UNCHANGED <<project, saveStatus, debounce, sinceEdit, burst,
                                       burstWrites, writeFailed>>
       ELSE UNCHANGED <<project, saveStatus, storage, debounce, sinceEdit, burst,
                        burstWrites, writeFailed, lastLoad>>
    /\ UNCHANGED <<build, feedback, fileDoc, opsLeft, exportedFrom, lastNew>>

\* The values the edit forms can give one field of the project.
ProjectNames == {"", "Saga"}
Engines == {"unity", "unreal", "godot"}
Languages == {"en", "zh"}

\* The project after one user edit: a setter called with a new value.
\*   setProjectName, handleFrameworkChange, setCharacters / the generation
\*   callbacks, handleClearScript, setGameEngine, setLanguage, setApiKey (v3).
Edits(b, st) ==
    {[st EXCEPT !.projectName = n] : n \in ProjectNames \ {st.projectName}}
    \cup {[st EXCEPT !.gameEngine = e] : e \in Engines \ {st.gameEngine}}
    \cup {[st EXCEPT !.language = l] : l \in Languages \ {st.language}}
    \cup (IF Len(st.characters) < MaxList
          THEN {[st EXCEPT !.characters = Append(@, "c1")]} ELSE {})
    \cup (IF Len(st.scriptPieces) < MaxList
          THEN {[st EXCEPT !.scriptPieces = Append(@, "p1")]} ELSE {})
    \cup (IF st.scriptPieces # <<>> THEN {[st EXCEPT !.scriptPieces = <<>>]} ELSE {})
    \cup (IF b # "v3" THEN {[st EXCEPT !.frameworkInputs = "framework:edited"]} ELSE {})
    \cup (IF b = "v3" THEN {[st EXCEPT !.apiKey = k] : k \in {"", "userKey"} \ {st.apiKey}}
          ELSE {})

\* One edit of the project state.
Edit(newProject) ==
    /\ mounted
    /\ ~TimerDue
    /\ opsLeft > 0
    /\ newProject \in Edits(build, project)
    /\ opsLeft' = opsLeft - 1
    /\ StateChanged(newProject)
    /\ UserActed
    /\ UNCHANGED <<build, mounted, storage, feedback, fileDoc, exportedFrom, lastLoad>>

\* v1: the credential of the settings dialog (customApiKey) is no dependency of
\* the autosave effect and no key of the document.
EditCustomApiKey(k) ==
    /\ mounted
    /\ ~TimerDue
    /\ build = "v1"
    /\ opsLeft > 0
    /\ k # project.apiKey
    /\ opsLeft' = opsLeft - 1
    /\ project' = [project EXCEPT !.apiKey = k]
    /\ UserActed
    /\ UNCHANGED <<build, mounted, saveStatus, storage, debounce, feedback, fileDoc,
                   sinceEdit, burst, burstWrites, writeFailed, exportedFrom, lastLoad>>

\* DebounceFires with a catch block that tries again after another window.
DebounceFiresRetries(writeOk) ==
    /\ debounce.remaining = 0
    /\ burstWrites' = burstWrites + 1
    /\ IF writeOk
       THEN /\ storage' = JsonStringify(ProjectData(build, debounce.snapshot))
            /\ saveStatus' = "saving"
            /\ feedback' = feedback \cup {FeedbackMs}
            /\ writeFailed' = FALSE
            /\ debounce' = NoTimer
       ELSE /\ saveStatus' = "unsaved"
            /\ writeFailed' = TRUE
            /\ debounce' = [debounce EXCEPT !.remaining = DebounceMs]
            /\ UNCHANGED <<storage, feedback>>
    /\ UNCHANGED <<build, mounted, project, fileDoc, opsLeft, sinceEdit, burst,
                   exportedFrom, lastLoad, lastNew>>

\* The autosave timeout runs: 'saving', then localStorage.setItem, which either
\* stores the text (and sets the 500 ms timeout to 'saved') or throws (and the
\* status goes back to 'unsaved').
DebounceFires(writeOk) ==
    /\ debounce.remaining = 0
    /\ debounce' = NoTimer
    /\ burstWrites' = burstWrites + 1
    /\ IF writeOk
       THEN /\ storage' = JsonStringify(ProjectData(build, debounce.snapshot))
            /\ saveStatus' = "saving"
            /\ feedback' = feedback \cup {FeedbackMs}
            /\ writeFailed' = FALSE
       ELSE /\ saveStatus' = "unsaved"
            /\ writeFailed' = TRUE
            /\ UNCHANGED <<storage, feedback>>
    /\ UNCHANGED <<build, mounted, project, fileDoc, opsLeft, sinceEdit, burst,
                   exportedFrom, lastLoad, lastNew>>

\* A `setTimeout(() => setSaveStatus('saved'), 500)` runs.
FeedbackFires ==
    /\ 0 \in feedback
    /\ feedback' = feedback \ {0}
    /\ saveStatus' = "saved"
    /\ UNCHANGED <<build, mounted, project, storage, debounce, fileDoc, opsLeft,
                   sinceEdit, burst, burstWrites, writeFailed, exportedFrom, lastLoad, lastNew>>

Min(a, b) == IF a < b THEN a ELSE b

\* Time passes by d ms; no pending timeout is overrun.  The clock sinceEdit
\* stops at DebounceMs + FeedbackMs, past which no timeout of the last edit
\* can be pending.
Advance(d) ==
    /\ mounted
    /\ ~TimerDue
    /\ debounce # NoTimer \/ feedback # {} \/ sinceEdit < DebounceMs + FeedbackMs
    /\ debounce # NoTimer => d <= debounce.remaining
    /\ \A r \in feedback : d <= r
    /\ debounce' = IF debounce = NoTimer THEN NoTimer
                   ELSE [debounce EXCEPT !.remaining = @ - d]
    /\ feedback' = {r - d : r \in feedback}
    /\ sinceEdit' = Min(sinceEdit + d, DebounceMs + FeedbackMs)
    /\ UNCHANGED <<build, mounted, project, saveStatus, storage, fileDoc, opsLeft,
                   burst, burstWrites, writeFailed, exportedFrom, lastLoad, lastNew>>

\* handleSaveProject: the download, then (v1, v3) the synchronous write to
\* localStorage and 'saved'.  When setItem throws, the exception leaves the
\* handler after the download and the status is not touched.
HandleSaveProject(writeOk) ==
    /\ mounted
    /\ ~TimerDue
    /\ opsLeft > 0
    /\ opsLeft' = opsLeft - 1
    /\ fileDoc' = JsonStringify(ProjectData(build, project))
    /\ exportedFrom' = project
    /\ UserActed
    /\ IF build \in AutosaveBuilds /\ writeOk
       THEN /\ storage' = JsonStringify(ProjectData(build, project))
            /\ saveStatus' = "saved"
       ELSE UNCHANGED <<storage, saveStatus>>
    /\ UNCHANGED <<build, mounted, project, debounce, feedback, sinceEdit, burst,
                   burstWrites, writeFailed, lastLoad>>

\* The texts the file dialog can deliver: the app's own last export or a
\* foreign file.
FileTexts == (IF fileDoc = NoItem THEN {} ELSE {fileDoc}) \cup ForeignTexts(build)

\* reader.onload of handleFileSelected for a file with this text.  An accepted
\* document replaces the state; v1 and v3 then store the text and set 'saved',
\* and the autosave effect of the following render sets 'unsaved' again.  When
\* the load or setItem throws, the error is shown instead of the success alert.
HandleFileSelected(text, writeOk) ==
    /\ mounted
    /\ ~TimerDue
    /\ opsLeft > 0
    /\ text \in FileTexts
    /\ opsLeft' = opsLeft - 1
    /\ UserActed
    /\ LET r == LoadText(build, text, project)
           stored == build \in AutosaveBuilds /\ writeOk
       IN  /\ lastLoad' = [seq |-> lastLoad.seq + 1,
                           source |-> IF text = fileDoc THEN "export" ELSE "file",
                           text |-> text,
                           accepted |-> r.ok,
                           ok |-> r.ok /\ (build = "v0" \/ writeOk),
                           msg |-> IF ~r.ok THEN r.msg
                                   ELSE IF build = "v0" \/ writeOk THEN ""
                                   ELSE "QuotaExceededError",
                           before |-> project]
           /\ IF r.ok
              THEN /\ StateChanged(r.state)
                   /\ storage' = IF stored THEN text ELSE storage
              ELSE UNCHANGED <<project, saveStatus, storage, debounce, sinceEdit,
                               burst, burstWrites, writeFailed>>
    /\ UNCHANGED <<build, mounted, feedback, fileDoc, exportedFrom>>

\* handleNewProject (v1, v3): after the confirmation the hard-coded initial
\* document is loaded, the stored text is removed and the status set to
\* 'saved'; the autosave effect of the following render sets 'unsaved' again.
HandleNewProject(confirmed) ==
    /\ mounted
    /\ ~TimerDue
    /\ build \in AutosaveBuilds
    /\ opsLeft > 0
    /\ opsLeft' = opsLeft - 1
    /\ lastNew' = [seq |-> lastNew.seq + 1, confirmed |-> confirmed, quiet |-> confirmed]
    /\ IF confirmed
       THEN /\ StateChanged(Loaded(build, GetInitialState(build), project))
            /\ storage' = NoItem
       ELSE UNCHANGED <<project, saveStatus, storage, debounce, sinceEdit, burst,
                        burstWrites, writeFailed>>
    /\ UNCHANGED <<build, mounted, feedback, fileDoc, exportedFrom, lastLoad>>

(***************************************************************************)
(* i18n/I18nProvider.tsx                                                   *)
(***************************************************************************)

\* At most this many requests are issued in one behaviour.
MaxFetches == 4

\* The keys the components look up; a locale file holds some of them.
Keys == {"app.title", "app.save"}

\* A dictionary is the language of the file it came from and the keys it
\* holds; its value for key k is the pair <<of, k>>.  NoDict is null/undefined.
NoDict == [loaded |-> FALSE, of |-> "", keys |-> {}]
EmptyDict == [loaded |-> TRUE, of |-> "", keys |-> {}]
LocaleFile(l) == [loaded |-> TRUE, of |-> l, keys |-> IF l = "en" THEN Keys ELSE {"app.title"}]

\* JS truthiness of a cache entry: every object is truthy, undefined is not.
Cached(l) == translationsCache[l] # NoDict

\* The keys the components pass to t: those of the locale files and one that
\* no file holds.
LookupKeys == Keys \cup {"app.unknown"}

\* The string a locale file holds for a key.
Value(l, key) ==
    CASE l = "en" /\ key = "app.title" -> "Game Script Assistant"
      [] l = "en" /\ key = "app.save"  -> "Save"
      [] l = "zh" /\ key = "app.title" -> "zh:Game Script Assistant"
      [] OTHER -> Undefined

\* `translations?.[key]`: undefined for null and for a key without entry.
Lookup(key) ==
    IF translations = NoDict THEN Undefined
    ELSE IF key \in translations.keys THEN Value(translations.of, key)
    ELSE Undefined

\* t without the `|| key` fallback.
TLookupOnly(key) == Lookup(key)

\* t(key): `translations?.[key] || key`.
T(key) == IF Falsy(Lookup(key)) THEN key ELSE Lookup(key)

\* A render of the components under the provider: every key is looked up.
Render == shown' = [k \in LookupKeys |-> T(k)']

TotalIssued == issued["en"] + issued["zh"]

NoFetch == [id |-> 0, language |-> "", isMounted |-> FALSE, ok |-> FALSE,
            before |-> NoDict, selected |-> ""]

\* The record of fetch f completing now.
Completed(f, ok) ==
    lastFetch' = [id |-> f.id, language |-> f.language, isMounted |-> f.isMounted,
                  ok |-> ok, before |-> translations, selected |-> language]

InitI18nVars ==
    /\ language \in Languages
    /\ provided = FALSE
    /\ translationsCache = [l \in Languages |-> NoDict]
    /\ translations = NoDict
    /\ fetches = {}
    /\ shown = [k \in LookupKeys |-> Undefined]
    /\ issued = [l \in Languages |-> 0]
    /\ failed = {}
    /\ lastFetch = NoFetch

\* One run of the effect for language l: loadTranslations up to its first
\* await.  A cache hit sets the state at once; a miss issues the request.
\* The fetches of earlier runs have had their isMounted flag cleared by the
\* cleanup.
RunEffect(l, earlier) ==
    IF translationsCache[l] # NoDict
    THEN /\ translations' = translationsCache[l]
         /\ fetches' = earlier
         /\ UNCHANGED issued
    ELSE /\ fetches' = earlier \cup {[id |-> TotalIssued + 1, language |-> l,
                                      isMounted |-> TRUE]}
         /\ issued' = [issued EXCEPT ![l] = @ + 1]
         /\ UNCHANGED translations

\* The first render: useState(translationsCache[language] || null), then the
\* effect.
Provide ==
    /\ ~provided
    /\ provided' = TRUE
    /\ RunEffect(language, {})
    /\ Render
    /\ UNCHANGED <<language, translationsCache, failed, lastFetch>>

\* The app renders the provider with another language: the cleanup of the
\* previous effect run sets its isMounted to false, then the effect runs again.
\* The translations state is not reset by the change of the prop.
SetLanguage(l) ==
    /\ provided
    /\ l # language
    /\ Cached(l) \/ TotalIssued < MaxFetches
    /\ language' = l
    /\ RunEffect(l, {[f EXCEPT !.isMounted = FALSE] : f \in fetches})
    /\ Render
    /\ UNCHANGED <<provided, translationsCache, failed, lastFetch>>

\* FetchSucceeds without the isMounted test: every completion is applied.
FetchSucceedsUnguarded(f) ==
    /\ f \in fetches
    /\ fetches' = fetches \ {f}
    /\ translationsCache' = [translationsCache EXCEPT ![f.language] =
                                 LocaleFile(f.language)]
    /\ translations' = LocaleFile(f.language)
    /\ Completed(f, TRUE)
    /\ Render
    /\ UNCHANGED <<language, provided, issued, failed>>

\* A request completes with the locale file.
FetchSucceeds(f) ==
    /\ f \in fetches
    /\ fetches' = fetches \ {f}
    /\ IF f.isMounted
       THEN /\ translationsCache' = [translationsCache EXCEPT ![f.language] =
                                        LocaleFile(f.language)]
            /\ translations' = LocaleFile(f.language)
       ELSE UNCHANGED <<translationsCache, translations>>
    /\ Completed(f, TRUE)
    /\ Render
    /\ UNCHANGED <<language, provided, issued, failed>>

\* A request fails (network error, HTTP status, JSON syntax): the catch block
\* sets the state to {} and does not touch the cache.
FetchFails(f) ==
    /\ f \in fetches
    /\ fetches' = fetches \ {f}
    /\ failed' = failed \cup {f.language}
    /\ IF f.isMounted
       THEN translations' = EmptyDict
       ELSE UNCHANGED translations
    /\ Completed(f, FALSE)
    /\ Render
    /\ UNCHANGED <<language, provided, translationsCache, issued>>

(***************************************************************************)
(* components/CharacterList.tsx (CharacterManager) and                     *)
(* components/CharacterGenerator.tsx: character generation into the roster *)
(***************************************************************************)

\* Entries the roster can hold when the session starts, characters one
\* provider response can hold, roster operations in one behaviour.
MaxRoster == 2
MaxBatch == 2
MaxRosterOps == 3

RosterComponents == {"CharacterManager", "CharacterGenerator"}

NoGeneration == [component |-> "none", snapshot |-> <<>>]
NoError == "null"
NoCompletion == [seq |-> 0, component |-> "none", n |-> 0, before |-> <<>>,
                 snapshot |-> <<>>, newIds |-> <<>>]

\* crypto.randomUUID(), called once per generated character: the results are
\* taken to be fresh, the k-th call of the session yields k.
RandomUUIDs(n) == [j \in 1..n |-> uuids + j]

InitRosterVars ==
    /\ \E k \in 0..MaxRoster : roster = [j \in 1..k |-> j] /\ uuids = k
    /\ generation = NoGeneration
    /\ isLoading = [c \in RosterComponents |-> FALSE]
    /\ error = [c \in RosterComponents |-> NoError]
    /\ rosterOps = MaxRosterOps
    /\ lastCompletion = NoCompletion

\* handleGenerate / handleSubmit up to the await: the guard on the prompts and
\* on isLoading, the flags, and the call; the handler's closure holds the
\* `characters` prop of the render it was created in.
SubmitGeneration(c, validPrompts) ==
    /\ rosterOps > 0
    /\ generation = NoGeneration
    /\ validPrompts > 0
    /\ ~isLoading[c]
    /\ isLoading' = [isLoading EXCEPT ![c] = TRUE]
    /\ error' = [error EXCEPT ![c] = NoError]
    /\ generation' = [component |-> c, snapshot |-> roster]
    /\ rosterOps' = rosterOps - 1
    /\ UNCHANGED <<roster, uuids, lastCompletion>>

\* handleDeleteCharacter after the confirmation: the roster without the entry.
DeleteCharacter(id) ==
    /\ rosterOps > 0
    /\ \E j \in 1..Len(roster) : roster[j] = id
    /\ roster' = SelectSeq(roster, LAMBDA x : x # id)
    /\ rosterOps' = rosterOps - 1
    /\ UNCHANGED <<uuids, generation, isLoading, error, lastCompletion>>

\* The call resolves with n characters: each gets a new id; CharacterManager
\* calls onCharactersChange([...characters, ...new]) with the `characters` of
\* its closure, CharacterGenerator hands the new entries to the app, which
\* appends them to the current state; then the finally block.
GenerationResolves(n) ==
    /\ generation # NoGeneration
    /\ LET c == generation.component
           newIds == RandomUUIDs(n)
       IN  /\ roster' = (IF c = "CharacterManager" THEN generation.snapshot ELSE roster)
                        \o newIds
           /\ uuids' = uuids + n
           /\ isLoading' = [isLoading EXCEPT ![c] = FALSE]
           /\ lastCompletion' = [seq |-> lastCompletion.seq + 1, component |-> c,
                                 n |-> n, before |-> roster,
                                 snapshot |-> generation.snapshot, newIds |-> newIds]
    /\ generation' = NoGeneration
    /\ UNCHANGED <<error, rosterOps>>

\* The call rejects: the catch block sets the inline message, then the finally
\* block.
GenerationRejects(msg) ==
    /\ generation # NoGeneration
    /\ error' = [error EXCEPT ![generation.component] = msg]
    /\ isLoading' = [isLoading EXCEPT ![generation.component] = FALSE]
    /\ generation' = NoGeneration
    /\ UNCHANGED <<roster, uuids, rosterOps, lastCompletion>>

(***************************************************************************)
(* Event handlers that await a generation or translation call              *)
(***************************************************************************)

\* The handlers, by component.
UiHandlers == {"ScriptEditor.handleTranslate",
               "WorldConceptManager.handleGenerateDescription",
               "GameDesignFramework.handleBrainstorm",
               "GameDesignFramework.handleTranslate",
               "SceneGenerator.handleSubmit",
               "PlotPointEditor.handleGenerateScript"}

ComponentOf(h) ==
    CASE h = "ScriptEditor.handleTranslate" -> "ScriptEditor"
      [] h = "WorldConceptManager.handleGenerateDescription" -> "WorldConceptManager"
      [] h = "GameDesignFramework.handleBrainstorm" -> "GameDesignFramework"
      [] h = "GameDesignFramework.handleTranslate" -> "GameDesignFramework"
      [] h = "SceneGenerator.handleSubmit" -> "SceneGenerator"
      [] h = "PlotPointEditor.handleGenerateScript" -> "PlotPointEditor"

UiComponents == {ComponentOf(h) : h \in UiHandlers}

\* Messages of the errors the service functions reject with.
UiMessages == {"Failed to translate text.", "AI Client not initialized."}

SummaryRequiredError == "summaryRequiredError"

\* The handler's body has a catch clause around the awaited call.
\* ScriptEditor.handleTranslate is try / finally only.
HasCatch(h) == h # "ScriptEditor.handleTranslate"

\* The catch clause calls setError(message). WorldConceptManager's only logs.
CatchSetsError(h) ==
    h \notin {"ScriptEditor.handleTranslate",
              "WorldConceptManager.handleGenerateDescription"}

\* The awaited call is the app's handleTranslateScriptPiece, whose own catch
\* shows window.alert(message) and rethrows.
AppAlerts(h) == h = "ScriptEditor.handleTranslate"

InitUiVars ==
    /\ uiPending = {}
    /\ uiBusy = [h \in UiHandlers |-> FALSE]
    /\ uiError = [c \in UiComponents |-> NoError]
    /\ uiAlert = NoError
    /\ uiOutcome = [h \in UiHandlers |-> "none"]
    /\ unhandled = {}

\* The user presses the handler's button. The button is disabled, or the
\* handler returns at once, while a handler of the component is busy; with an
\* empty input the handler returns (PlotPointEditor sets an inline message).
\* Otherwise: busy flag set, setError(null) where the component has an error
\* state, and the call is awaited.
StartHandler(h, valid) ==
    /\ \A g \in UiHandlers : ComponentOf(g) = ComponentOf(h) => ~uiBusy[g]
    /\ h \notin uiPending
    /\ IF valid
       THEN /\ uiBusy' = [uiBusy EXCEPT ![h] = TRUE]
            /\ uiError' = IF CatchSetsError(h)
                          THEN [uiError EXCEPT ![ComponentOf(h)] = NoError]
                          ELSE uiError
            /\ uiPending' = uiPending \cup {h}
            /\ uiOutcome' = [uiOutcome EXCEPT ![h] = "none"]
            /\ unhandled' = unhandled \ {h}
       ELSE /\ uiError' = IF h = "PlotPointEditor.handleGenerateScript"
                          THEN [uiError EXCEPT ![ComponentOf(h)] = SummaryRequiredError]
                          ELSE uiError
            /\ UNCHANGED <<uiBusy, uiPending, uiOutcome, unhandled>>
    /\ UNCHANGED uiAlert

\* The awaited call resolves: the result is handed on; finally clears the flag.
CallResolves(h) ==
    /\ h \in uiPending
    /\ uiPending' = uiPending \ {h}
    /\ uiBusy' = [uiBusy EXCEPT ![h] = FALSE]
    /\ uiOutcome' = [uiOutcome EXCEPT ![h] = "resolved"]
    /\ UNCHANGED <<uiError, uiAlert, unhandled>>

\* The awaited call rejects with an Error carrying msg: the app-level callback
\* (if any) alerts and rethrows, the handler's catch (if any) runs, finally
\* clears the flag, and without a catch the handler's promise rejects; the
\* onClick arrow drops that promise.
CallRejects(h, msg) ==
    /\ h \in uiPending
    /\ uiPending' = uiPending \ {h}
    /\ uiAlert' = IF AppAlerts(h) THEN msg ELSE uiAlert
    /\ uiError' = IF CatchSetsError(h)
                  THEN [uiError EXCEPT ![ComponentOf(h)] = msg]
                  ELSE uiError
    /\ uiBusy' = [uiBusy EXCEPT ![h] = FALSE]
    /\ unhandled' = IF HasCatch(h) THEN unhandled ELSE unhandled \cup {h}
    /\ uiOutcome' = [uiOutcome EXCEPT ![h] = "rejected"]

(***************************************************************************)
(* The script canvas: handlers of the app that append script pieces        *)
(***************************************************************************)

\* Model bounds: the clock's last millisecond, and the completions delivered.
MaxNow == 2
MaxPieceOps == 3

InitPiecesVars ==
    /\ now = 0
    /\ scriptPieces = <<>>
    /\ pieceOps = 0

\* A millisecond passes.
ClockTick ==
    /\ now < MaxNow
    /\ now' = now + 1
    /\ UNCHANGED <<scriptPieces, pieceOps>>

\* handleCharactersGenerated(newCharacters): one piece per character of the
\* batch, with id Date.now() + index.
HandleCharactersGenerated(n) ==
    /\ pieceOps < MaxPieceOps
    /\ pieceOps' = pieceOps + 1
    /\ scriptPieces' = scriptPieces \o
           [index \in 1..n |-> [id |-> now + (index - 1), type |-> "scene",
                                content |-> "profile"]]
    /\ UNCHANGED now

\* handleSceneGenerated(content)
HandleSceneGenerated ==
    /\ pieceOps < MaxPieceOps
    /\ pieceOps' = pieceOps + 1
    /\ scriptPieces' = Append(scriptPieces,
                              [id |-> now, type |-> "scene", content |-> "scene"])
    /\ UNCHANGED now

\* handleScriptGenerated(content)
HandleScriptGenerated ==
    /\ pieceOps < MaxPieceOps
    /\ pieceOps' = pieceOps + 1
    /\ scriptPieces' = Append(scriptPieces,
                              [id |-> now, type |-> "full", content |-> "script"])
    /\ UNCHANGED now

\* handleClearScript()
HandleClearScript ==
    /\ scriptPieces # <<>>
    /\ scriptPieces' = <<>>
    /\ UNCHANGED <<now, pieceOps>>

\* handleTranslateScriptPiece(pieceId) whose translation resolved: every piece
\* with that id gets the translated content; ids stay.
TranslatePieceResolves(pieceId) ==
    /\ \E k \in 1..Len(scriptPieces) : scriptPieces[k].id = pieceId
    /\ scriptPieces' = [k \in 1..Len(scriptPieces) |->
                          IF scriptPieces[k].id = pieceId
                          THEN [scriptPieces[k] EXCEPT !.content = "translated"]
                          ELSE scriptPieces[k]]
    /\ UNCHANGED <<now, pieceOps>>

(***************************************************************************)
(* components/FullScriptGenerator.tsx: outline and section generation      *)
(***************************************************************************)

\* Model bounds: sections of a generated outline, user operations in one run.
MaxSections == 2
MaxFsOps == 4

NoSection == -1
SectionIds == 0..(MaxSections - 1)
\* Texts of a section description: as generated, as typed over, as translated.
Descriptions == {"generated", "typed", "translated"}

InitFullScriptVars ==
    /\ outline = <<>>
    /\ isLoadingOutline = FALSE
    /\ isTranslatingOutline = FALSE
    /\ generatingSectionId = NoSection
    /\ generatedSectionIds = {}
    /\ fsError = NoError
    /\ sectionCalls = {}
    /\ outlineEpoch = 0
    /\ markEpoch = [id \in SectionIds |-> NoSection]
    /\ editedSince = {}
    /\ fsOps = MaxFsOps

HasSection(id) == \E k \in 1..Len(outline) : outline[k].id = id

\* handleGenerateOutline up to the await.  The form is rendered only while
\* the outline is empty.
HandleGenerateOutline ==
    /\ fsOps > 0
    /\ outline = <<>>
    /\ ~isLoadingOutline
    /\ isLoadingOutline' = TRUE
    /\ fsError' = NoError
    /\ fsOps' = fsOps - 1
    /\ UNCHANGED <<outline, isTranslatingOutline, generatingSectionId, generatedSectionIds,
                   sectionCalls, outlineEpoch, markEpoch, editedSince>>

\* generateScriptOutline resolves with n descriptions: ids are the indexes,
\* the marks are cleared.
OutlineResolves(n) ==
    /\ isLoadingOutline
    /\ outline' = [index \in 1..n |-> [id |-> index - 1, description |-> "generated"]]
    /\ generatedSectionIds' = {}
    /\ isLoadingOutline' = FALSE
    /\ outlineEpoch' = outlineEpoch + 1
    /\ editedSince' = {}
    /\ UNCHANGED <<isTranslatingOutline, generatingSectionId, fsError, sectionCalls,
                   markEpoch, fsOps>>

OutlineRejects(msg) ==
    /\ isLoadingOutline
    /\ fsError' = msg
    /\ isLoadingOutline' = FALSE
    /\ UNCHANGED <<outline, isTranslatingOutline, generatingSectionId, generatedSectionIds,
                   sectionCalls, outlineEpoch, markEpoch, editedSince, fsOps>>

\* handleGenerateSection(section) up to the await.
HandleGenerateSection(id) ==
    /\ fsOps > 0
    /\ HasSection(id)
    /\ generatingSectionId = NoSection
    /\ generatingSectionId' = id
    /\ fsError' = NoError
    /\ sectionCalls' = sectionCalls \cup
          {[id |-> id, epoch |-> outlineEpoch, call |-> MaxFsOps - fsOps]}
    /\ fsOps' = fsOps - 1
    /\ UNCHANGED <<outline, isLoadingOutline, isTranslatingOutline, generatedSectionIds,
                   outlineEpoch, markEpoch, editedSince>>

\* generateScriptSection resolves: the script is handed to the app, the
\* section's id is added to the marks, and finally clears generatingSectionId.
SectionResolves(c) ==
    /\ c \in sectionCalls
    /\ sectionCalls' = sectionCalls \ {c}
    /\ generatedSectionIds' = generatedSectionIds \cup {c.id}
    /\ generatingSectionId' = NoSection
    /\ markEpoch' = [markEpoch EXCEPT ![c.id] = c.epoch]
    /\ editedSince' = editedSince \ {c.id}
    /\ UNCHANGED <<outline, isLoadingOutline, isTranslatingOutline, fsError,
                   outlineEpoch, fsOps>>

SectionRejects(c, msg) ==
    /\ c \in sectionCalls
    /\ sectionCalls' = sectionCalls \ {c}
    /\ fsError' = msg
    /\ generatingSectionId' = NoSection
    /\ UNCHANGED <<outline, isLoadingOutline, isTranslatingOutline, generatedSectionIds,
                   outlineEpoch, markEpoch, editedSince, fsOps>>

\* handleOutlineChange(id, newDescription): the text is replaced; a mark on
\* the section is removed.
HandleOutlineChange(id, newDescription) ==
    /\ fsOps > 0
    /\ \E k \in 1..Len(outline) :
          outline[k].id = id /\ outline[k].description # newDescription
    /\ outline' = [k \in 1..Len(outline) |->
                     IF outline[k].id = id
                     THEN [outline[k] EXCEPT !.description = newDescription]
                     ELSE outline[k]]
    /\ generatedSectionIds' = generatedSectionIds \ {id}
    /\ editedSince' = editedSince \cup {id}
    /\ fsOps' = fsOps - 1
    /\ UNCHANGED <<isLoadingOutline, isTranslatingOutline, generatingSectionId, fsError,
                   sectionCalls, outlineEpoch, markEpoch>>

\* handleClearOutline()
HandleClearOutline ==
    /\ fsOps > 0
    /\ outline # <<>>
    /\ outline' = <<>>
    /\ fsError' = NoError
    /\ generatedSectionIds' = {}
    /\ outlineEpoch' = outlineEpoch + 1
    /\ editedSince' = {}
    /\ fsOps' = fsOps - 1
    /\ UNCHANGED <<isLoadingOutline, isTranslatingOutline, generatingSectionId,
                   sectionCalls, markEpoch>>

\* handleTranslateOutline up to the await.
HandleTranslateOutline ==
    /\ fsOps > 0
    /\ outline # <<>>
    /\ ~isTranslatingOutline
    /\ isTranslatingOutline' = TRUE
    /\ fsError' = NoError
    /\ fsOps' = fsOps - 1
    /\ UNCHANGED <<outline, isLoadingOutline, generatingSectionId, generatedSectionIds,
                   sectionCalls, outlineEpoch, markEpoch, editedSince>>

\* translateToChinese resolves.  With as many parts as sections were sent
\* (sameCount) every description of the present outline is replaced;
\* otherwise the handler throws into its own catch block.  The marks stay.
TranslateOutlineResolves(sameCount) ==
    /\ isTranslatingOutline
    /\ isTranslatingOutline' = FALSE
    /\ IF sameCount
       THEN /\ outline' = [k \in 1..Len(outline) |->
                              [outline[k] EXCEPT !.description = "translated"]]
            /\ UNCHANGED fsError
       ELSE /\ fsError' = "Translation returned a different number of sections. Please try again."
            /\ UNCHANGED outline
    /\ UNCHANGED <<isLoadingOutline, generatingSectionId, generatedSectionIds,
                   sectionCalls, outlineEpoch, markEpoch, editedSince, fsOps>>

TranslateOutlineRejects(msg) ==
    /\ isTranslatingOutline
    /\ isTranslatingOutline' = FALSE
    /\ fsError' = msg
    /\ UNCHANGED <<outline, isLoadingOutline, generatingSectionId, generatedSectionIds,
                   sectionCalls, outlineEpoch, markEpoch, editedSince, fsOps>>

(***************************************************************************)
(* Specifications                                                          *)
(***************************************************************************)

\* The state of the subsystems a specification does not exercise.
AppIdle ==
    /\ build = "v1"
    /\ mounted = FALSE
    /\ project = InitialProject("v1")
    /\ saveStatus = "saved"
    /\ storage = NoItem
    /\ debounce = NoTimer
    /\ feedback = {}
    /\ fileDoc = NoItem
    /\ opsLeft = 0
    /\ sinceEdit = 0
    /\ burst = 0
    /\ burstWrites = 0
    /\ writeFailed = FALSE
    /\ exportedFrom = InitialProject("v1")
    /\ lastLoad = NoLoad
    /\ lastNew = NoNew

I18nIdle ==
    /\ language = "en"
    /\ provided = FALSE
    /\ translationsCache = [l \in Languages |-> NoDict]
    /\ translations = NoDict
    /\ fetches = {}
    /\ shown = [k \in LookupKeys |-> Undefined]
    /\ issued = [l \in Languages |-> 0]
    /\ failed = {}
    /\ lastFetch = NoFetch

RosterIdle ==
    /\ roster = <<>>
    /\ uuids = 0
    /\ generation = NoGeneration
    /\ isLoading = [c \in RosterComponents |-> FALSE]
    /\ error = [c \in RosterComponents |-> NoError]
    /\ rosterOps = 0
    /\ lastCompletion = NoCompletion

UiIdle == InitUiVars

PiecesIdle == InitPiecesVars

FullScriptIdle == InitFullScriptVars

RetryIdle ==
    /\ envKey = ""
    /\ lastKey = Undefined
    /\ endpoint = DefaultEndpoint
    /\ lastConfigure = NoConfigure
    /\ ai = NoClient
    /\ pc = "idle"
    /\ fn = "none"
    /\ maxRetries = DefaultMaxRetries
    /\ i = 0
    /\ lastError = Undefined
    /\ log = <<>>
    /\ attemptClient = Undefined
    /\ waits = <<>>
    /\ providerCalls = 0
    /\ retryOutcome = Pending
    /\ clientAtCall = NoClient
    /\ result = Pending

InitRetry == InitRetryVars /\ AppIdle /\ I18nIdle /\ RosterIdle /\ UiIdle /\ PiecesIdle /\ FullScriptIdle
NextRetry ==
    \/ \E k \in UserKeys : InitializeAi(k) /\ UNCHANGED exceptRetry
    \/ \E n \in 0..MaxRetriesArg : CallWithRetry(n) /\ UNCHANGED exceptRetry
    \/ \E f \in GenerationFunctions, argEmpty \in BOOLEAN :
          CallGeneration(f, argEmpty) /\ UNCHANGED exceptRetry
    \/ \E f \in LegacyFunctions : CallLegacyGeneration(f) /\ UNCHANGED exceptRetry
    \/ \E t \in ResponseTexts : AttemptSucceeds(t) /\ UNCHANGED exceptRetry
    \/ \E e \in ProviderErrors : AttemptFails(e) /\ UNCHANGED exceptRetry
    \/ AttemptWithoutClient /\ UNCHANGED exceptRetry
    \/ BackoffElapsed /\ UNCHANGED exceptRetry
    \/ FunctionSettles /\ UNCHANGED exceptRetry
    \/ CallReturns /\ UNCHANGED exceptRetry
SpecRetry == InitRetry /\ [][NextRetry]_vars

\* The client configuration alone: the settings effect with and without an
\* endpoint.
NextConfigure ==
    \/ \E k \in UserKeys : InitializeAi(k) /\ UNCHANGED exceptRetry
    \/ \E k \in UserKeys, e \in EndpointArgs : Configure(k, e) /\ UNCHANGED exceptRetry
SpecConfigure == InitRetry /\ [][NextConfigure]_vars

InitApp == InitAppVars(Builds) /\ RetryIdle /\ I18nIdle /\ RosterIdle /\ UiIdle /\ PiecesIdle /\ FullScriptIdle
NextApp ==
    \/ Mount /\ UNCHANGED exceptApp
    \/ \E p \in Edits(build, project) : Edit(p) /\ UNCHANGED exceptApp
    \/ \E ok \in BOOLEAN : DebounceFires(ok) /\ UNCHANGED exceptApp
    \/ FeedbackFires /\ UNCHANGED exceptApp
    \/ \E d \in TimeSteps : Advance(d) /\ UNCHANGED exceptApp
    \/ \E k \in {"", "userKey"} : EditCustomApiKey(k) /\ UNCHANGED exceptApp
    \/ \E ok \in BOOLEAN : HandleSaveProject(ok) /\ UNCHANGED exceptApp
    \/ \E t \in FileTexts, ok \in BOOLEAN : HandleFileSelected(t, ok) /\ UNCHANGED exceptApp
    \/ \E c \in BOOLEAN : HandleNewProject(c) /\ UNCHANGED exceptApp
SpecApp == InitApp /\ [][NextApp]_vars

\* The project states a session reaches by edits, at rest: the last autosave
\* has completed, nothing is pending.
ProjectStates(b) ==
    [projectName : ProjectNames \cup {InitialProject(b).projectName},
     frameworkInputs : IF b = "v3" THEN {NotApplicable}
                       ELSE {InitialFrameworkInputs, "framework:edited"},
     characters : {<<>>, <<"c1">>},
     scriptPieces : {<<>>, <<"p1">>},
     gameEngine : Engines,
     language : Languages,
     apiKey : IF b = "v0" THEN {""} ELSE {"", "userKey"}]

InitRoundTrip ==
    /\ build \in Builds
    /\ mounted = TRUE
    /\ project \in ProjectStates(build)
    /\ saveStatus = "saved"
    /\ storage = (IF build = "v0" THEN NoItem
                  ELSE JsonStringify(ProjectData(build, project)))
    /\ debounce = NoTimer
    /\ feedback = {}
    /\ fileDoc = NoItem
    /\ opsLeft = MaxOps
    /\ sinceEdit = DebounceMs + FeedbackMs
    /\ burst = 1
    /\ burstWrites = 1
    /\ writeFailed = FALSE
    /\ exportedFrom = project
    /\ lastLoad = NoLoad
    /\ lastNew = NoNew
    /\ RetryIdle
    /\ I18nIdle
    /\ RosterIdle
    /\ UiIdle /\ PiecesIdle /\ FullScriptIdle

\* Export and import only, from any project state at rest.
NextRoundTrip ==
    \/ \E ok \in BOOLEAN : HandleSaveProject(ok) /\ UNCHANGED exceptApp
    \/ \E t \in FileTexts, ok \in BOOLEAN : HandleFileSelected(t, ok) /\ UNCHANGED exceptApp

SpecRoundTrip == InitRoundTrip /\ [][NextRoundTrip]_vars

InitAutosave == InitAppVars(AutosaveBuilds) /\ RetryIdle /\ I18nIdle /\ RosterIdle /\ UiIdle /\ PiecesIdle /\ FullScriptIdle
NextAutosave ==
    \/ Mount /\ UNCHANGED exceptApp
    \/ \E p \in Edits(build, project) : Edit(p) /\ UNCHANGED exceptApp
    \/ \E ok \in BOOLEAN : DebounceFires(ok) /\ UNCHANGED exceptApp
    \/ FeedbackFires /\ UNCHANGED exceptApp
    \/ \E d \in TimeSteps : Advance(d) /\ UNCHANGED exceptApp
SpecAutosave == InitAutosave /\ [][NextAutosave]_vars

\* The provider alone: the app's setLanguage (header toggle, loaded document)
\* reaches it as a change of the `language` prop.
InitI18n == InitI18nVars /\ RetryIdle /\ AppIdle /\ RosterIdle /\ UiIdle /\ PiecesIdle /\ FullScriptIdle
NextI18n ==
    \/ Provide /\ UNCHANGED exceptI18n
    \/ \E l \in Languages : SetLanguage(l) /\ UNCHANGED exceptI18n
    \/ \E f \in fetches : FetchSucceeds(f) /\ UNCHANGED exceptI18n
    \/ \E f \in fetches : FetchFails(f) /\ UNCHANGED exceptI18n
SpecI18n == InitI18n /\ [][NextI18n]_vars

\* The roster: submissions from both components, deletions, completions.
InitRoster == InitRosterVars /\ RetryIdle /\ AppIdle /\ I18nIdle /\ UiIdle /\ PiecesIdle /\ FullScriptIdle
NextRoster ==
    \/ \E c \in RosterComponents, k \in {0, 2} :
          SubmitGeneration(c, k) /\ UNCHANGED exceptRoster
    \/ \E id \in 1..(MaxRoster + MaxRosterOps * MaxBatch) :
          DeleteCharacter(id) /\ UNCHANGED exceptRoster
    \/ \E n \in 0..MaxBatch : GenerationResolves(n) /\ UNCHANGED exceptRoster
    \/ \E e \in ProviderErrors : GenerationRejects(e) /\ UNCHANGED exceptRoster
SpecRoster == InitRoster /\ [][NextRoster]_vars

\* The event handlers: presses, and the awaited calls settling either way.
InitUi == InitUiVars /\ RetryIdle /\ AppIdle /\ I18nIdle /\ RosterIdle /\ PiecesIdle /\ FullScriptIdle
NextUi ==
    \/ \E h \in UiHandlers, valid \in BOOLEAN :
          StartHandler(h, valid) /\ UNCHANGED exceptUi
    \/ \E h \in UiHandlers : CallResolves(h) /\ UNCHANGED exceptUi
    \/ \E h \in UiHandlers, msg \in UiMessages :
          CallRejects(h, msg) /\ UNCHANGED exceptUi
SpecUi == InitUi /\ [][NextUi]_vars

\* The script canvas: completions of the three generators, in any order and
\* any number within one millisecond.
InitPieces == InitPiecesVars /\ RetryIdle /\ AppIdle /\ I18nIdle /\ RosterIdle /\ UiIdle /\ FullScriptIdle
NextPieces ==
    \/ ClockTick /\ UNCHANGED exceptPieces
    \/ \E n \in 1..MaxBatch : HandleCharactersGenerated(n) /\ UNCHANGED exceptPieces
    \/ HandleSceneGenerated /\ UNCHANGED exceptPieces
    \/ HandleScriptGenerated /\ UNCHANGED exceptPieces
    \/ HandleClearScript /\ UNCHANGED exceptPieces
    \/ \E pieceId \in 0..(MaxNow + MaxBatch) :
          TranslatePieceResolves(pieceId) /\ UNCHANGED exceptPieces
SpecPieces == InitPieces /\ [][NextPieces]_vars

\* The full-script generator: user operations and completions of its calls.
InitFullScript ==
    InitFullScriptVars /\ RetryIdle /\ AppIdle /\ I18nIdle /\ RosterIdle /\ UiIdle /\ PiecesIdle
NextFullScript ==
    \/ HandleGenerateOutline /\ UNCHANGED exceptFullScript
    \/ \E n \in 1..MaxSections : OutlineResolves(n) /\ UNCHANGED exceptFullScript
    \/ \E msg \in UiMessages : OutlineRejects(msg) /\ UNCHANGED exceptFullScript
    \/ \E id \in SectionIds : HandleGenerateSection(id) /\ UNCHANGED exceptFullScript
    \/ \E c \in sectionCalls : SectionResolves(c) /\ UNCHANGED exceptFullScript
    \/ \E c \in sectionCalls, msg \in UiMessages :
          SectionRejects(c, msg) /\ UNCHANGED exceptFullScript
    \/ \E id \in SectionIds, d \in Descriptions :
          HandleOutlineChange(id, d) /\ UNCHANGED exceptFullScript
    \/ HandleClearOutline /\ UNCHANGED exceptFullScript
    \/ HandleTranslateOutline /\ UNCHANGED exceptFullScript
    \/ \E sameCount \in BOOLEAN :
          TranslateOutlineResolves(sameCount) /\ UNCHANGED exceptFullScript
    \/ \E msg \in UiMessages : TranslateOutlineRejects(msg) /\ UNCHANGED exceptFullScript
SpecFullScript == InitFullScript /\ [][NextFullScript]_vars

(***************************************************************************)
(* Properties of the roster                                                *)
(***************************************************************************)

Range(f) == {f[j] : j \in DOMAIN f}

\* C14: when a generation submitted from the roster (CharacterManager)
\* completes with n characters, the roster grows by exactly n entries, and
\* the new ids differ from each other and from every id already in the roster.
C14_RosterGrowsByBatch ==
    [][(lastCompletion'.seq # lastCompletion.seq
        /\ lastCompletion'.component = "CharacterManager") =>
          LET n == lastCompletion'.n
              newIds == lastCompletion'.newIds
          IN  /\ Len(roster') = Len(roster) + n
              /\ Len(newIds) = n
              /\ Cardinality(Range(newIds)) = n
              /\ Range(newIds) \cap Range(roster) = {}
              /\ Range(newIds) \cap Range(lastCompletion'.snapshot) = {}]_vars

(***************************************************************************)
(* Properties of the translation cache                                     *)
(***************************************************************************)

\* C9: for each language at most one fetch of its translation file is issued,
\* whatever the order of language switches and fetch completions.
C9_OneFetchPerLanguage ==
    \A l \in Languages : issued[l] <= 1

\* The key has no entry in the dictionary the provider holds.
NoEntry(key) == translations = NoDict \/ key \notin translations.keys

C10_FailureIsCached ==
    /\ [](\A l \in failed : translationsCache[l] # NoDict)
    /\ [][\A l \in failed : issued'[l] = issued[l]]_vars

(***************************************************************************)
(* Properties of the persistence layer                                     *)
(***************************************************************************)

NewerVersion(text) ==
    text.kind = "json" /\ text.doc.version # NoVersion /\ text.doc.version > AppVersion(build)

\* C4: a load (from a file or from localStorage at mount) of a document whose
\* version is greater than APP_VERSION is refused and leaves every in-memory
\* project field as it was.
C4_NewerVersionRejected ==
    [][(lastLoad'.seq # lastLoad.seq /\ NewerVersion(lastLoad'.text)) =>
         /\ ~lastLoad'.accepted
         /\ ~lastLoad'.ok
         /\ lastLoad'.msg # ""
         /\ project' = project
         /\ project' = lastLoad'.before]_vars

C4_Witness ==
    /\ lastLoad.seq > 0
    /\ lastLoad.source = "file"
    /\ NewerVersion(lastLoad.text)
    /\ ~lastLoad.accepted
    /\ project = lastLoad.before
    /\ project # InitialProject(build)

\* C15: after a confirmed "New project" and no further user operation the
\* in-memory state is the hard-coded initial document and local storage holds
\* no project document, also after the pending timers have fired; a declined
\* confirmation changes neither the state nor local storage.
C15_NewProjectClears ==
    /\ []((lastNew.confirmed /\ lastNew.quiet) =>
            /\ storage = NoItem
            /\ project = Loaded(build, GetInitialState(build), project))
    /\ [][(lastNew'.seq # lastNew.seq /\ ~lastNew'.confirmed) =>
            project' = project /\ storage' = storage]_vars

\* The document lacks a field its revision's SavedProject requires.
MissingRequired(text) ==
    /\ text.kind = "json"
    /\ \/ text.doc.version = NoVersion
       \/ text.doc.projectName = Undefined
       \/ build # "v3" /\ text.doc.frameworkInputs = Undefined

\* C16: a load of a document that lacks a required field (version, project
\* name, framework inputs) is aborted with an error and leaves every in-memory
\* project field as it was.
C16_MissingFieldRejected ==
    [][(lastLoad'.seq # lastLoad.seq /\ MissingRequired(lastLoad'.text)) =>
         /\ ~lastLoad'.accepted
         /\ lastLoad'.msg # ""
         /\ project' = project]_vars

\* C5: importing the file that handleSaveProject exported from state S is
\* accepted and yields a project state equal to S field for field.
C5_RoundTrip ==
    [][(lastLoad'.seq # lastLoad.seq /\ lastLoad'.source = "export") =>
         /\ lastLoad'.accepted
         /\ project' = exportedFrom]_vars

\* C6: for a burst of edits that follow each other by less than the debounce
\* window, no autosave write happens before one window has passed since the
\* last edit, the write is pending for exactly that instant, and once the
\* window has passed exactly one write has been made for the burst.
C6_OneWritePerBurst ==
    burst >= 1 =>
        /\ sinceEdit < DebounceMs =>
              /\ burstWrites = 0
              /\ debounce # NoTimer
              /\ debounce.remaining = DebounceMs - sinceEdit
        /\ sinceEdit = DebounceMs =>
              \/ burstWrites = 0 /\ debounce # NoTimer /\ debounce.remaining = 0
              \/ burstWrites = 1 /\ debounce = NoTimer
        /\ sinceEdit > DebounceMs =>
              /\ burstWrites = 1
              /\ debounce = NoTimer

C6_Witness ==
    /\ burst >= 2
    /\ burstWrites = 1
    /\ sinceEdit = DebounceMs
    /\ debounce = NoTimer

\* C7: under edits and autosave timer events the save status changes only
\* along saved->unsaved, unsaved->saving, saving->saved and saving->unsaved;
\* in particular never from 'unsaved' to 'saved' without a write in between.
C7_StatusTransitions ==
    [][saveStatus' # saveStatus =>
         <<saveStatus, saveStatus'>> \in {<<"saved", "unsaved">>, <<"unsaved", "saving">>,
                                         <<"saving", "saved">>, <<"saving", "unsaved">>}]_vars

\* C8: when the autosave write throws, the status is 'unsaved', the project
\* state is untouched, and no autosave write is pending or made until the next
\* edit.
C8_FailedWriteNotRetried ==
    /\ [](writeFailed =>
            /\ saveStatus = "unsaved"
            /\ debounce = NoTimer
            /\ burstWrites = 1)
    /\ [][(writeFailed' /\ ~writeFailed) =>
            /\ project' = project
            /\ storage' = storage
            /\ saveStatus' = "unsaved"]_vars

C8_Witness ==
    /\ writeFailed
    /\ saveStatus = "unsaved"
    /\ sinceEdit = DebounceMs + FeedbackMs
    /\ project # InitialProject(build)

(***************************************************************************)
(* Properties of withRetry and the generation functions                    *)
(***************************************************************************)

NumFailures(l) == Cardinality({j \in 1..Len(l) : l[j].kind = "error"})

\* C1: withRetry, called while a client is configured, stops at the first
\* attempt that succeeds and resolves with its value, so k failures followed by
\* a success (k < maxRetries) take exactly k+1 invocations; it gives up only
\* after exactly maxRetries failed invocations.
C1_RetryInvocations ==
    clientAtCall # NoClient =>
        /\ \A j \in 1..Len(log) :
              log[j].kind = "value" => j = Len(log) /\ retryOutcome = log[j]
        /\ retryOutcome.kind = "value" =>
              /\ Len(log) = NumFailures(log) + 1
              /\ NumFailures(log) < maxRetries
              /\ log[Len(log)] = retryOutcome
        /\ retryOutcome.kind = "error" =>
              /\ NumFailures(log) = maxRetries
              /\ Len(log) = maxRetries
        /\ pc \in {"attempt", "waiting"} =>
              /\ NumFailures(log) = Len(log)
              /\ Len(log) < maxRetries

C1_Witness ==
    /\ clientAtCall # NoClient
    /\ retryOutcome.kind = "value"
    /\ NumFailures(log) = 2
    /\ Len(log) = 3

\* C2: when every attempt failed, withRetry rejects with exactly the error of
\* the last attempt.
C2_RethrowsLastError ==
    (clientAtCall # NoClient /\ retryOutcome.kind = "error" /\ Len(log) > 0) =>
        retryOutcome = log[Len(log)]

C2_Witness ==
    /\ clientAtCall # NoClient
    /\ retryOutcome.kind = "error"
    /\ Len(log) = 3
    /\ log[1] # log[3]
    /\ log[2] # log[3]

\* C3: a call made while no client is configured rejects with the "not
\* initialized" error and never invokes the request function or the provider,
\* whatever its arguments.
C3_NotInitializedFailsFast ==
    clientAtCall = NoClient =>
        /\ log = <<>>
        /\ providerCalls = 0
        /\ pc \notin {"attempt", "waiting"}
        /\ retryOutcome.kind # "value"
        /\ pc = "settled" =>
              result \in {Err(NotInitializedMsg), Err(NotInitializedShortMsg)}

C3_Witness ==
    /\ clientAtCall = NoClient
    /\ pc = "settled"
    /\ fn = "generateCharacters"
    /\ result = Err(NotInitializedMsg)

\* The functions that request JSON under a response schema and check it.
SchemaConstrained == {"generateCharacters", "generateScriptOutline"}

\* Response texts that are valid JSON without a usable array under the key.
WrongShapeTexts == {"json_nokey", "json_nonarray", "json_null"}

\* C12: a schema-constrained generation whose provider response is valid JSON
\* but lacks the required array key, or holds a non-array under it, rejects; it
\* never resolves, with an empty list or anything else.
C12_WrongShapeRejects ==
    (/\ pc = "settled"
     /\ fn \in SchemaConstrained
     /\ retryOutcome.kind = "value"
     /\ retryOutcome.v \in WrongShapeTexts) => result.kind = "error"

C12_Witness ==
    /\ pc = "settled"
    /\ fn = "generateScriptOutline"
    /\ retryOutcome = Ok("json_nonarray")
    /\ result.kind = "error"
    /\ Len(log) = 2

\* C13: for every schema-constrained generation function the error surfaced
\* for a response that does not parse or has the wrong shape differs from the
\* error surfaced when the provider call failed after all retries.
C13_FormatErrorDistinct ==
    (/\ pc = "settled"
     /\ fn \in SchemaConstrained
     /\ retryOutcome.kind = "value"
     /\ TrimText(retryOutcome.v) # ""
     /\ result.kind = "error") =>
        \A e \in ProviderErrors : result # FunctionResult(fn, Err(e))

\* C17: after initializeAi with an absent, empty or blank credential, when an
\* environment default key exists, the active client is bound to the
\* environment key, so that a generation call made next is not refused as not
\* initialized.
C17_BlankKeyUsesDefault ==
    (envKey # "" /\ (lastKey = Undefined \/ Trim(lastKey) = "")) =>
        /\ ai = envKey
        /\ ai # NoClient

\* C18: a configuration attempt with an endpoint that is no syntactically
\* valid URL has no effect: the client (and endpoint) active before the call
\* stays active, and no exception reaches the caller.
C18_InvalidEndpointDiscarded ==
    (lastConfigure.endpoint # "" /\ ~ValidUrl(lastConfigure.endpoint)) =>
        /\ ai = lastConfigure.before.ai
        /\ endpoint = lastConfigure.before.endpoint
        /\ lastConfigure.discarded
        /\ ~lastConfigure.threw

\* A custom client with a custom endpoint survives an attempt that would have
\* replaced both.
C18_Witness ==
    /\ lastConfigure.endpoint = "proxy example"
    /\ lastConfigure.key = ""
    /\ ai = "userKey"
    /\ endpoint = "https://proxy.example/v1"
    /\ ClientFor(lastConfigure.key, envKey) # ai

\* The failed attempts of the current withRetry call, in order.
FailedAttempts == SelectSeq(log, LAMBDA r : r.kind = "error")

\* C19: the wait after failed attempt number j (counted from 0) is at least
\* initialDelay * 2^j ms and less than initialDelay * 2^j + 1000 ms; a wait
\* follows every failed attempt but the final one, after which the error is
\* rethrown with no wait.
C19_BackoffBounds ==
    /\ \A j \in 1..Len(waits) :
          /\ waits[j] >= InitialDelay * Pow2(j - 1)
          /\ waits[j] < InitialDelay * Pow2(j - 1) + JitterRange
    /\ Len(waits) <= Len(FailedAttempts)
    /\ (pc = "attempt") => Len(waits) = Len(FailedAttempts)
    /\ (pc = "retrySettled" /\ retryOutcome.kind = "error" /\ Len(FailedAttempts) > 0) =>
          Len(waits) = Len(FailedAttempts) - 1

\* Three attempts failed and the error was rethrown after two waits, the
\* second one in the doubled range.
C19_Witness ==
    /\ pc = "retrySettled"
    /\ retryOutcome.kind = "error"
    /\ Len(FailedAttempts) = 3
    /\ Len(waits) = 2
    /\ waits[2] >= 2 * InitialDelay

\* C20: whenever a generation or translation call started from a UI
\* component rejects, the rejection is caught in the UI layer: the handler's
\* in-progress flag is back to idle, the component's inline error message is
\* set, and no rejection escapes the event handler.
C20_RejectionsCaughtInUi ==
    [][\A h \in UiHandlers :
          (h \in uiPending /\ uiOutcome'[h] = "rejected") =>
              /\ ~uiBusy'[h]
              /\ uiError'[ComponentOf(h)] # NoError
              /\ h \notin unhandled']_vars

\* C21: after any sequence of character-batch, scene and script generation
\* completions (several of them within one millisecond included), no two
\* script pieces of the list share an id.
C21_PieceIdsUnique ==
    \A j, k \in 1..Len(scriptPieces) :
        scriptPieces[j].id = scriptPieces[k].id => j = k

\* The dictionary of the selected language is still being fetched.
Loading == \E f \in fetches : f.language = language /\ f.isMounted

\* C22: while the dictionary of the selected language has not finished
\* loading (right after a switch from an already loaded language included),
\* t(key) returns the key itself for every key, never a string of another
\* language.
C22_KeysWhileLoading ==
    (provided /\ Loading) => \A k \in LookupKeys : shown[k] = k

\* C27: a translation fetch that completes, with the file or with an error,
\* after the selected language has changed never replaces the dictionary
\* that t uses.
C27_StaleFetchIgnored ==
    [][\A f \in fetches :
          (f \notin fetches' /\ language' = language
           /\ (f.language # language \/ ~f.isMounted)) =>
              /\ translations' = translations
              /\ shown' = shown]_vars

\* The zh file arrived after the user had switched back to the loaded
\* English dictionary, which is still the one in use.
C27_Witness ==
    /\ lastFetch.language = "zh"
    /\ lastFetch.ok
    /\ lastFetch.selected = "en"
    /\ language = "en"
    /\ lastFetch.before = LocaleFile("en")
    /\ translations = LocaleFile("en")
    /\ fetches = {}

\* C23: at startup, a document found in local storage that cannot be parsed
\* or that loadProjectData rejects is removed from local storage and every
\* in-memory project field keeps its default value; an accepted document is
\* not removed.
C23_StartupLoad ==
    [][(~mounted /\ mounted' /\ storage # NoItem) =>
          /\ lastLoad'.source = "storage"
          /\ lastLoad'.text = storage
          /\ IF lastLoad'.ok
             THEN storage' = storage
             ELSE /\ storage' = NoItem
                  /\ project' = InitialProject(build)]_vars

\* A stored document of a newer version was refused at startup and removed.
C23_Witness ==
    /\ mounted
    /\ lastLoad.source = "storage"
    /\ lastLoad.text # Garbage
    /\ ~lastLoad.ok
    /\ storage = NoItem
    /\ project = InitialProject(build)

\* C24: whenever the save status is 'saved' and a project document is present
\* in local storage, that document is the serialization of the current
\* in-memory project state.
C24_SavedMeansStored ==
    (mounted /\ saveStatus = "saved" /\ storage # NoItem) =>
        storage = JsonStringify(ProjectData(build, project))

C26_RosterChangesPreserved ==
    [][lastCompletion'.seq # lastCompletion.seq =>
          roster' = roster \o lastCompletion'.newIds]_vars

\* C28: loading a project file is all-or-nothing: either every in-memory
\* project field is replaced by the file's content, local storage holds the
\* file's text and success is reported, or an error is reported and both the
\* in-memory state and local storage are unchanged, also when the write to
\* local storage throws.
C28_FileLoadAllOrNothing ==
    [][(build \in AutosaveBuilds /\ lastLoad'.seq # lastLoad.seq
        /\ lastLoad'.source # "storage") =>
          IF lastLoad'.ok
          THEN /\ lastLoad'.text.kind = "json"
               /\ project' = Loaded(build, lastLoad'.text.doc, project)
               /\ storage' = lastLoad'.text
          ELSE /\ project' = project
               /\ storage' = storage]_vars

\* C29: in the full-script generator at most one section generation is in
\* flight at a time, and a section is marked as generated only if a
\* generation started for that section of the current outline completed
\* successfully after the outline was last generated or cleared and after the
\* section's description was last edited.
C29_SectionMarks ==
    /\ Cardinality(sectionCalls) <= 1
    /\ \A id \in generatedSectionIds :
          HasSection(id) =>
              /\ markEpoch[id] = outlineEpoch
              /\ id \notin editedSince

\* C30: each attempt of an in-flight withRetry call uses the client that is
\* active when the attempt starts: after initializeAi replaced the client
\* during a backoff wait the attempt goes to the new client; after the client
\* was unset the attempt makes no provider call and fails, and the call
\* rejects when that was its last attempt.
C30_AttemptUsesActiveClient ==
    [][(fn \notin LegacyFunctions /\ Len(log') = Len(log) + 1) =>
          /\ attemptClient' = ai
          /\ IF ai = NoClient
             THEN /\ providerCalls' = providerCalls
                  /\ log'[Len(log')].kind = "error"
                  /\ pc' = "retrySettled" => retryOutcome'.kind = "error"
             ELSE providerCalls' = providerCalls + 1]_vars

\* A call started with the environment client whose second attempt went to
\* the user's client, set during the first wait, and is now waiting again.
C30_Witness ==
    /\ fn \in GenerationFunctions
    /\ pc = "waiting"
    /\ clientAtCall = "envKey"
    /\ attemptClient = "userKey"
    /\ Len(log) = 2
    /\ providerCalls = 2

====
